---- MODULE Spec2Model ----
(***************************************************************************)
(* A model of ensemble_md/analysis/analyze_traj.py: stitch_trajs,          *)
(* traj2transmtx and plot_transit_time, each as a state machine that       *)
(* follows the statements of the function.  Python sequences are TLA+      *)
(* sequences (1-based); Python indices, loop counters and replica indices  *)
(* are kept 0-based as in the source and translated by PyAt.               *)
(***************************************************************************)
EXTENDS Integers, Sequences, FiniteSets, TLC

VARIABLES
    \* stitch_trajs
    dhdl_files,     \* dhdl_files[r][j]: handle of the dhdl file of replica r, iteration j
    frames,         \* what extract_state_traj returns for each handle
    rep_trajs,      \* rep_trajs[c][j]: replica index of configuration c at iteration j
    shifts,         \* shifts[r]: shift of the state indices of replica r
    dhdl_sorted,    \* local of stitch_trajs
    state_trajs,    \* local of stitch_trajs, its return value
    s_i, s_j,       \* loop counters i, j of stitch_trajs (0-based)
    s_pc,           \* "sort" | "stitch" | "done" | "IndexError" ("idle": not called)
    \* traj2transmtx
    m_traj,         \* parameter traj
    m_N,            \* parameter N
    normalize,      \* parameter normalize
    transmtx,       \* local of traj2transmtx, its return value
    m_i,            \* loop counter i of traj2transmtx
    m_pc,           \* "count" | "normalize" | "done" | "IndexError" ("idle": not called)
    \* plot_transit_time
    trajs,          \* parameter trajs
    N,              \* parameter N
    dt,             \* parameter dt: None, or a number
    units,          \* local units, returned
    t_0k_list, t_k0_list, t_roundtrip_list,     \* returned
    sci,            \* local sci
    i,              \* loop counter over the configurations
    t,              \* loop counter over the time frames of trajs[i]
    last_visited,   \* None, or the end visited last
    t_0, t_k,       \* time frames of the arrivals at 0 and at k
    t_0k, t_k0, t_roundtrip,
    end_0_found, end_k_found,
    pc              \* "setup" | "scan" | "pair" | "collect" | "plot" | "done" | "ValueError"
                    \* ("idle": not called)

vars == <<dhdl_files, frames, rep_trajs, shifts, dhdl_sorted, state_trajs, s_i, s_j, s_pc,
          m_traj, m_N, normalize, transmtx, m_i, m_pc,
          trajs, N, dt, units, t_0k_list, t_k0_list, t_roundtrip_list, sci, i, t,
          last_visited, t_0, t_k, t_0k, t_k0, t_roundtrip, end_0_found, end_k_found, pc>>

transitVars == <<trajs, N, dt, units, t_0k_list, t_k0_list, t_roundtrip_list, sci, i, t,
                 last_visited, t_0, t_k, t_0k, t_k0, t_roundtrip, end_0_found, end_k_found, pc>>

stitchVars == <<dhdl_files, frames, rep_trajs, shifts, dhdl_sorted, state_trajs, s_i, s_j, s_pc>>

mtxVars == <<m_traj, m_N, normalize, transmtx, m_i, m_pc>>


(***************************************************************************)
(* Bounds of the explored inputs.                                          *)
(***************************************************************************)
MaxRep == 2
MaxIter == 2
MaxSegLen == 2
MaxN == 3
MaxMtxLen == 5
MaxBadLen == 3
MaxStates == 3
MaxTrajLen == 5
MaxTimedLen == 3
MaxPairLen == 4

(***************************************************************************)
(* Python list semantics.                                                  *)
(***************************************************************************)
\* s[k] raises IndexError unless -len(s) <= k < len(s)
PyIndexOK(s, k) == (-Len(s) <= k) /\ (k < Len(s))

\* s[k] for a valid k: a negative k counts from the end
PyAt(s, k) == IF k < 0 THEN s[Len(s) + k + 1] ELSE s[k + 1]

\* s[1:]
DropFirst(s) == IF Len(s) = 0 THEN <<>> ELSE SubSeq(s, 2, Len(s))

\* list(np.array(traj) + c)
AddShift(l, c) == [p \in 1..Len(l) |-> l[p] + c]

(***************************************************************************)
(* stitch_trajs(dhdl_files, rep_trajs, shifts)                             *)
(***************************************************************************)
n_configs == Len(dhdl_files)
n_iter == Len(dhdl_files[1])

extract_state_traj(dhdl) == frames[dhdl]

\* the frames kept of the j-th file of a configuration (lines 79-84)
KeptFramesBug(raw, j) == raw
KeptFrames(raw, j) == IF j = 0 THEN raw ELSE DropFirst(raw)

\* the file looked up for configuration i at iteration j (line 73)
SortLookupOK(c, j) ==
    /\ PyIndexOK(rep_trajs, c)
    /\ PyIndexOK(PyAt(rep_trajs, c), j)
    /\ PyIndexOK(dhdl_files, PyAt(PyAt(rep_trajs, c), j))
    /\ PyIndexOK(PyAt(dhdl_files, PyAt(PyAt(rep_trajs, c), j)), j)
SortLookup(c, j) == PyAt(PyAt(dhdl_files, PyAt(PyAt(rep_trajs, c), j)), j)

\* shift_idx = rep_trajs[i][j] (line 85)
ShiftIndexBug(c, j) == c
ShiftIndex(c, j) == PyAt(PyAt(rep_trajs, c), j)

\* for i in range(n_configs): for j in range(n_iter): one pass of the body at (i, j)
LoopAdvance ==
    IF s_j + 1 < n_iter
    THEN s_i' = s_i /\ s_j' = s_j + 1
    ELSE s_i' = s_i + 1 /\ s_j' = 0

SortStep ==
    /\ s_pc = "sort"
    /\ s_i < n_configs
    /\ IF SortLookupOK(s_i, s_j)
       THEN /\ dhdl_sorted' = [dhdl_sorted EXCEPT ![s_i + 1] = Append(@, SortLookup(s_i, s_j))]
            /\ LoopAdvance
            /\ s_pc' = s_pc
       ELSE /\ s_pc' = "IndexError"
            /\ UNCHANGED <<dhdl_sorted, s_i, s_j>>
    /\ UNCHANGED <<dhdl_files, frames, rep_trajs, shifts, state_trajs>>

SortDone ==
    /\ s_pc = "sort"
    /\ s_i = n_configs
    /\ s_pc' = "stitch"
    /\ state_trajs' = [c \in 1..n_configs |-> <<>>]
    /\ s_i' = 0
    /\ s_j' = 0
    /\ UNCHANGED <<dhdl_files, frames, rep_trajs, shifts, dhdl_sorted>>

StitchStep ==
    /\ s_pc = "stitch"
    /\ s_i < n_configs
    /\ LET kept == KeptFrames(extract_state_traj(PyAt(PyAt(dhdl_sorted, s_i), s_j)), s_j)
           shift_idx == ShiftIndex(s_i, s_j)
       IN  IF PyIndexOK(shifts, shift_idx)
           THEN /\ state_trajs' = [state_trajs EXCEPT ![s_i + 1] =
                                      @ \o AddShift(kept, PyAt(shifts, shift_idx))]
                /\ LoopAdvance
                /\ s_pc' = s_pc
           ELSE /\ s_pc' = "IndexError"
                /\ UNCHANGED <<state_trajs, s_i, s_j>>
    /\ UNCHANGED <<dhdl_files, frames, rep_trajs, shifts, dhdl_sorted>>

StitchReturn ==
    /\ s_pc = "stitch"
    /\ s_i = n_configs
    /\ s_pc' = "done"
    /\ UNCHANGED <<dhdl_files, frames, rep_trajs, shifts, dhdl_sorted, state_trajs, s_i, s_j>>

(***************************************************************************)
(* The calls of stitch_trajs that are explored.                            *)
(***************************************************************************)
\* the local state index written in frame p of the file of replica r, iteration j
\* (r, j 0-based, p 1-based): distinct for distinct frames of distinct files
FrameValue(r, j, p) == (MaxSegLen + 2) * ((MaxIter + 1) * r + j) + p

Handles(n, m) == (0..(n - 1)) \X (0..(m - 1))

FilesOf(n, m) == [r \in 1..n |-> [j \in 1..m |-> <<r - 1, j - 1>>]]

\* every file of iteration j holds lens[j] frames: the replicas run the same number of steps
FramesOf(n, m, lens) ==
    [h \in Handles(n, m) |-> [p \in 1..lens[h[2] + 1] |-> FrameValue(h[1], h[2], p)]]

Perms(n) == {f \in [1..n -> 0..(n - 1)] : \A a, b \in 1..n : f[a] = f[b] => a = b}

\* in every iteration the n configurations occupy the n replicas
Assignments(n, m) == {[c \in 1..n |-> [j \in 1..m |-> ps[j][c]]] : ps \in [1..m -> Perms(n)]}

ShiftsOf(n) == [r \in 1..n |-> 1000 * (r - 1)]

StitchStart ==
    /\ dhdl_sorted = [c \in 1..n_configs |-> <<>>]
    /\ state_trajs = <<>>
    /\ s_i = 0
    /\ s_j = 0
    /\ s_pc = "sort"

\* well-formed calls: as many configurations as replicas, any segment lengths
InitWellFormed ==
    \E n \in 1..MaxRep, m \in 1..MaxIter :
        \E lens \in [1..m -> 0..MaxSegLen], a \in Assignments(n, m) :
            /\ dhdl_files = FilesOf(n, m)
            /\ frames = FramesOf(n, m, lens)
            /\ rep_trajs = a
            /\ shifts = ShiftsOf(n)
            /\ StitchStart

\* the replica indices that are not in 0..n-1
BadReplicaIndices(n) == {-(n + 1), -n, -1, n}

\* calls with one defect: a replica index out of range, a configuration more or less
\* than replicas, a shift missing, a file missing, an iteration missing in a row
InitMalformed ==
    \E n \in 1..MaxRep, m \in 1..MaxIter :
        \E a \in Assignments(n, m) :
            /\ frames = FramesOf(n, m, [j \in 1..m |-> MaxSegLen])
            /\ \/ /\ \E c \in 1..n, j \in 1..m, v \in BadReplicaIndices(n) :
                        rep_trajs = [a EXCEPT ![c][j] = v]
                  /\ dhdl_files = FilesOf(n, m)
                  /\ shifts = ShiftsOf(n)
               \/ /\ rep_trajs \in {Append(a, a[1]), SubSeq(a, 1, n - 1)}
                  /\ dhdl_files = FilesOf(n, m)
                  /\ shifts = ShiftsOf(n)
               \/ /\ rep_trajs = a
                  /\ dhdl_files = FilesOf(n, m)
                  /\ shifts = SubSeq(ShiftsOf(n), 1, n - 1)
               \/ /\ rep_trajs = a
                  /\ n > 1
                  /\ dhdl_files = [FilesOf(n, m) EXCEPT ![n] = SubSeq(@, 1, m - 1)]
                  /\ shifts = ShiftsOf(n)
               \/ /\ \E c \in 1..n : rep_trajs = [a EXCEPT ![c] = SubSeq(@, 1, m - 1)]
                  /\ dhdl_files = FilesOf(n, m)
                  /\ shifts = ShiftsOf(n)
            /\ StitchStart

\* the call of the stitching scenario: 2 configurations, 2 iterations
InitScenario ==
    /\ dhdl_files = FilesOf(2, 2)
    /\ frames = [h \in Handles(2, 2) |-> IF h[2] = 0 THEN <<0, 1, 2>> ELSE <<2, 3, 4>>]
    /\ rep_trajs = <<<<0, 1>>, <<1, 0>>>>
    /\ shifts = <<0, 10>>
    /\ StitchStart

StitchIdle ==
    /\ dhdl_files = <<>> /\ frames = <<>> /\ rep_trajs = <<>> /\ shifts = <<>>
    /\ dhdl_sorted = <<>> /\ state_trajs = <<>> /\ s_i = 0 /\ s_j = 0 /\ s_pc = "idle"

MtxIdle ==
    /\ m_traj = <<>> /\ m_N = 0 /\ normalize = FALSE /\ transmtx = <<>>
    /\ m_i = 0 /\ m_pc = "idle"

TransitIdle ==
    /\ trajs = <<>> /\ N = 0 /\ dt = <<>> /\ units = "" /\ sci = FALSE
    /\ t_0k_list = <<>> /\ t_k0_list = <<>> /\ t_roundtrip_list = <<>>
    /\ i = 0 /\ t = 0 /\ last_visited = <<>> /\ t_0 = <<>> /\ t_k = <<>>
    /\ t_0k = <<>> /\ t_k0 = <<>> /\ t_roundtrip = <<>>
    /\ end_0_found = FALSE /\ end_k_found = FALSE /\ pc = "idle"

InitStitch == (InitWellFormed \/ InitMalformed \/ InitScenario) /\ MtxIdle /\ TransitIdle

NextStitch ==
    \/ SortStep /\ UNCHANGED <<mtxVars, transitVars>>
    \/ SortDone /\ UNCHANGED <<mtxVars, transitVars>>
    \/ StitchStep /\ UNCHANGED <<mtxVars, transitVars>>
    \/ StitchReturn /\ UNCHANGED <<mtxVars, transitVars>>

SpecStitch == InitStitch /\ [][NextStitch]_vars

(***************************************************************************)
(* Properties of stitch_trajs.                                             *)
(***************************************************************************)
\* configuration c (1-based) has a replica of the segments table at every iteration
RowValid(c) ==
    /\ c <= Len(rep_trajs)
    /\ Len(rep_trajs[c]) >= n_iter
    /\ \A j \in 1..n_iter :
          /\ rep_trajs[c][j] \in 0..(Len(dhdl_files) - 1)
          /\ rep_trajs[c][j] < Len(shifts)
          /\ j <= Len(dhdl_files[rep_trajs[c][j] + 1])

\* the raw segment configuration c visited at iteration j (1-based)
VisitedSegment(c, j) == frames[<<rep_trajs[c][j], j - 1>>]

RECURSIVE SumOver(_, _)
SumOver(f, n) == IF n = 0 THEN 0 ELSE SumOver(f, n - 1) + f[n]

MaxOf(a, b) == IF a >= b THEN a ELSE b

\* L_1 + sum over j > 1 of (L_j - 1)
ClaimedLength(c) ==
    SumOver([j \in 1..n_iter |-> IF j = 1 THEN Len(VisitedSegment(c, j))
                                          ELSE Len(VisitedSegment(c, j)) - 1], n_iter)

\* L_1 + sum over j > 1 of max(L_j - 1, 0)
AmendedLength(c) ==
    SumOver([j \in 1..n_iter |-> IF j = 1 THEN Len(VisitedSegment(c, j))
                                          ELSE MaxOf(Len(VisitedSegment(c, j)) - 1, 0)], n_iter)

\* C1 as stated: every returned trajectory has length L_1 + sum_{j>1} (L_j - 1),
\* for any raw segment lengths L_1..L_n
C1_StitchLengthAnyLengths ==
    s_pc = "done" =>
        \A c \in 1..Len(state_trajs) :
            RowValid(c) => Len(state_trajs[c]) = ClaimedLength(c)

\* C1 amended: every returned trajectory has length L_1 + sum_{j>1} max(L_j - 1, 0):
\* the claimed length when every segment after the first holds at least one frame,
\* while an empty segment adds nothing
C1_StitchLength ==
    s_pc = "done" =>
        \A c \in 1..Len(state_trajs) :
            RowValid(c) => Len(state_trajs[c]) = AmendedLength(c)

\* a call of two iterations has returned, the second segment lost its first frame
C1_Witness ==
    /\ s_pc = "done"
    /\ n_iter = 2
    /\ RowValid(1)
    /\ Len(VisitedSegment(1, 1)) = 2
    /\ Len(VisitedSegment(1, 2)) = 2
    /\ Len(state_trajs[1]) = 3

\* the samples configuration c draws from iteration j: the raw segment of the replica
\* occupied at iteration j, without its first sample when j > 1, each sample increased
\* by the shift of that replica
ClaimedPiece(c, j) ==
    LET raw == VisitedSegment(c, j)
        skip == IF j > 1 THEN 1 ELSE 0
        n == IF Len(raw) >= skip THEN Len(raw) - skip ELSE 0
    IN  [p \in 1..n |-> raw[p + skip] + shifts[rep_trajs[c][j] + 1]]

RECURSIVE ClaimedTrajectory(_, _)
ClaimedTrajectory(c, m) ==
    IF m = 0 THEN <<>> ELSE ClaimedTrajectory(c, m - 1) \o ClaimedPiece(c, m)

IsScenario ==
    /\ rep_trajs = <<<<0, 1>>, <<1, 0>>>>
    /\ shifts = <<0, 10>>
    /\ Len(dhdl_files) = 2
    /\ frames[<<0, 0>>] = <<0, 1, 2>>
    /\ frames[<<1, 1>>] = <<2, 3, 4>>

\* C2: the stitched trajectory of configuration c is the concatenation over the
\* iterations of the visited raw segments (first sample dropped after the first
\* iteration) shifted by the shift of the replica occupied at that iteration; the
\* scenario call gives configuration 0 the trajectory [0,1,2,13,14]
C2_StitchContent ==
    s_pc = "done" =>
        /\ \A c \in 1..Len(state_trajs) :
              RowValid(c) => state_trajs[c] = ClaimedTrajectory(c, n_iter)
        /\ IsScenario => state_trajs[1] = <<0, 1, 2, 13, 14>>

\* a call has returned in which configuration 0 changed replica and drew shifted
\* samples from both iterations
C2_Witness ==
    /\ s_pc = "done"
    /\ n_iter = 2
    /\ RowValid(1)
    /\ rep_trajs[1][1] # rep_trajs[1][2]
    /\ rep_trajs[1][2] # 0
    /\ Len(state_trajs[1]) = 3

\* C3 as stated: a returned result holds exactly one trajectory per row of rep_trajs,
\* also when the segments table has another number of replicas
C3_OneTrajectoryPerConfiguration ==
    s_pc = "done" => Len(state_trajs) = Len(rep_trajs)

\* C4 as stated: when some rep_trajs[c][j] is not a replica index of the segments table
\* at iteration j, or has no shift, the call fails and returns nothing
C4_BadReplicaIndexRejected ==
    (\E c \in 1..Len(rep_trajs) : ~RowValid(c)) => s_pc # "done"

(***************************************************************************)
(* Real numbers of numpy arrays: a quotient is kept exactly, as the pair   *)
(* <<numerator, denominator>> in lowest terms with a positive denominator; *)
(* <<0, 0>> is nan, the result of 0/0.                                     *)
(***************************************************************************)
RECURSIVE GCD(_, _)
GCD(a, b) == IF b = 0 THEN a ELSE GCD(b, a % b)

Abs(a) == IF a < 0 THEN -a ELSE a

Nan == <<0, 0>>

IsNan(x) == x[2] = 0 /\ x[1] = 0

Real(n) == <<n, 1>>

Reduced(n, d) ==
    LET g == GCD(Abs(n), Abs(d))
        sgn == IF d < 0 THEN -1 ELSE 1
    IN  <<sgn * (n \div g), sgn * (d \div g)>>

\* x / y of two numbers, as numpy divides: 0/0 is nan, x/0 is +-inf (<<+-1, 0>>)
RDiv(x, y) ==
    IF IsNan(x) \/ IsNan(y) THEN Nan
    ELSE IF y[1] = 0 THEN (IF x[1] = 0 THEN Nan ELSE <<(IF x[1] > 0 THEN 1 ELSE -1), 0>>)
    ELSE Reduced(x[1] * y[2], x[2] * y[1])

RAdd(x, y) ==
    IF x[2] = 0 \/ y[2] = 0 THEN Nan
    ELSE Reduced(x[1] * y[2] + y[1] * x[2], x[2] * y[2])

RMul(x, y) ==
    IF x[2] = 0 \/ y[2] = 0 THEN Nan
    ELSE Reduced(x[1] * y[1], x[2] * y[2])

\* x >= y for two numbers that are not nan
RGeq(x, y) == x[1] * y[2] >= y[1] * x[2]

RECURSIVE RSum(_, _)
RSum(row, n) == IF n = 0 THEN Real(0) ELSE RAdd(RSum(row, n - 1), row[n])

(***************************************************************************)
(* traj2transmtx(traj, N, normalize)                                       *)
(***************************************************************************)
\* transmtx[a, b] raises IndexError unless both indices are in [-N, N)
MtxIndexOK(a, b) == (-m_N <= a) /\ (a < m_N) /\ (-m_N <= b) /\ (b < m_N)

\* the 1-based row or column a numpy index addresses: a negative index counts from the end
MtxPos(a) == IF a < 0 THEN m_N + a + 1 ELSE a + 1

\* transmtx[prev, next] += 1 (line 116)
CountedBug(mtx, prev, next) ==
    [mtx EXCEPT ![MtxPos(next)][MtxPos(prev)] = RAdd(@, Real(1))]
Counted(mtx, prev, next) ==
    [mtx EXCEPT ![MtxPos(prev)][MtxPos(next)] = RAdd(@, Real(1))]

\* transmtx /= np.sum(transmtx, axis=1)[:, None] (line 118)
RowsDivided(mtx) ==
    [a \in 1..m_N |-> [b \in 1..m_N |-> RDiv(mtx[a][b], RSum(mtx[a], m_N))]]

\* transmtx[np.isnan(transmtx)] = 0 (line 119)
NanToZeroBug(mtx) == mtx
NanToZero(mtx) ==
    [a \in 1..m_N |-> [b \in 1..m_N |-> IF IsNan(mtx[a][b]) THEN Real(0) ELSE mtx[a][b]]]

\* for i in range(1, len(traj)): one pass of the body
CountStep ==
    /\ m_pc = "count"
    /\ m_i < Len(m_traj)
    /\ LET prev == m_traj[m_i]          \* traj[i - 1]
           next == m_traj[m_i + 1]      \* traj[i]
       IN  IF MtxIndexOK(prev, next)
           THEN /\ transmtx' = Counted(transmtx, prev, next)
                /\ m_i' = m_i + 1
                /\ m_pc' = m_pc
           ELSE /\ m_pc' = "IndexError"
                /\ UNCHANGED <<transmtx, m_i>>
    /\ UNCHANGED <<m_traj, m_N, normalize>>

\* the loop is over: if normalize is True
CountDone ==
    /\ m_pc = "count"
    /\ m_i >= Len(m_traj)
    /\ m_pc' = IF normalize THEN "normalize" ELSE "done"
    /\ UNCHANGED <<m_traj, m_N, normalize, transmtx, m_i>>

\* lines 118-119, then return
Normalize ==
    /\ m_pc = "normalize"
    /\ transmtx' = NanToZero(RowsDivided(transmtx))
    /\ m_pc' = "done"
    /\ UNCHANGED <<m_traj, m_N, normalize, m_i>>

(***************************************************************************)
(* The calls of traj2transmtx that are explored.                           *)
(***************************************************************************)
SeqsUpTo(S, n) == UNION {[1..len -> S] : len \in 0..n}

MtxStart ==
    /\ transmtx = [a \in 1..m_N |-> [b \in 1..m_N |-> Real(0)]]     \* np.zeros([N, N])
    /\ m_i = 1
    /\ m_pc = "count"

\* trajectories of indices in [0, N)
InitMtxInRange ==
    /\ m_N \in 1..MaxN
    /\ m_traj \in SeqsUpTo(0..(m_N - 1), MaxMtxLen)
    /\ normalize \in BOOLEAN
    /\ MtxStart

\* short trajectories of any indices in [-N-1, N]
InitMtxAnyIndex ==
    /\ m_N \in 1..MaxN
    /\ m_traj \in SeqsUpTo((-(m_N + 1))..m_N, MaxBadLen)
    /\ normalize \in BOOLEAN
    /\ MtxStart

InitMtx == (InitMtxInRange \/ InitMtxAnyIndex) /\ StitchIdle /\ TransitIdle

NextMtx ==
    \/ CountStep /\ UNCHANGED <<stitchVars, transitVars>>
    \/ CountDone /\ UNCHANGED <<stitchVars, transitVars>>
    \/ Normalize /\ UNCHANGED <<stitchVars, transitVars>>

SpecMtx == InitMtx /\ [][NextMtx]_vars

(***************************************************************************)
(* Properties of traj2transmtx.                                            *)
(***************************************************************************)
TrajInRange == \A p \in 1..Len(m_traj) : m_traj[p] \in 0..(m_N - 1)

\* the number of positions t >= 1 with traj[t-1] = a and traj[t] = b
PairCount(a, b) ==
    Cardinality({p \in 2..Len(m_traj) : m_traj[p - 1] = a /\ m_traj[p] = b})

\* the number of positions other than the last at which a occurs
OutCount(a) == Cardinality({p \in 2..Len(m_traj) : m_traj[p - 1] = a})

\* the number x is the quotient n / d (d > 0)
IsQuotient(x, n, d) == x[2] > 0 /\ x[1] * d = n * x[2]

Half == <<1, 2>>

\* C5: for a trajectory in [0, N) the matrix returned without normalization holds in
\* [a][b] the number of consecutive pairs (a, b); the normalized matrix holds that
\* number divided by the row sum in the rows that are not zero, and zero elsewhere;
\* [0,1,2,1,0] with N = 3 gives [[0,1,0],[0.5,0,0.5],[0,1,0]]
C5_TransitionCounts ==
    (m_pc = "done" /\ TrajInRange) =>
        /\ \A a, b \in 0..(m_N - 1) :
              IF normalize /\ OutCount(a) > 0
              THEN IsQuotient(transmtx[a + 1][b + 1], PairCount(a, b), OutCount(a))
              ELSE transmtx[a + 1][b + 1] = Real(PairCount(a, b))
        /\ Len(transmtx) = m_N
        /\ \A a \in 1..m_N : Len(transmtx[a]) = m_N
        /\ (m_traj = <<0, 1, 2, 1, 0>> /\ m_N = 3 /\ normalize) =>
              transmtx = << <<Real(0), Real(1), Real(0)>>,
                            <<Half, Real(0), Half>>,
                            <<Real(0), Real(1), Real(0)>> >>

\* a normalized matrix with a row shared by two targets and a row never left was returned
C5_Witness ==
    /\ m_pc = "done"
    /\ TrajInRange
    /\ normalize
    /\ \E a, b \in 0..(m_N - 1) :
          /\ OutCount(a) = 3
          /\ PairCount(a, b) = 2
          /\ transmtx[a + 1][b + 1] = <<2, 3>>
    /\ \E a \in 0..(m_N - 1) : OutCount(a) = 0

\* C6: in the normalized matrix of a trajectory in [0, N) every entry is a number >= 0,
\* never nan; row i sums to 1 if i occurs at a position other than the last, else to 0
C6_RowStochastic ==
    (m_pc = "done" /\ TrajInRange /\ normalize) =>
        \A a \in 0..(m_N - 1) :
            /\ \A b \in 1..m_N :
                  /\ ~IsNan(transmtx[a + 1][b])
                  /\ transmtx[a + 1][b][2] > 0
                  /\ RGeq(transmtx[a + 1][b], Real(0))
            /\ RSum(transmtx[a + 1], m_N) = (IF OutCount(a) > 0 THEN Real(1) ELSE Real(0))

\* a normalized matrix was returned with a row of several fractions and an unvisited row
C6_Witness ==
    /\ m_pc = "done"
    /\ TrajInRange
    /\ normalize
    /\ \E a \in 0..(m_N - 1) : OutCount(a) = 0
    /\ \E a \in 0..(m_N - 1) : \E b, c \in 1..m_N :
          /\ b # c
          /\ transmtx[a + 1][b] = <<1, 3>>
          /\ transmtx[a + 1][c] = <<2, 3>>

\* C7 as stated: a trajectory with a value outside [0, N) makes the call fail, no
\* matrix is returned
C7_OutOfRangeRejected ==
    ~TrajInRange => m_pc # "done"

(***************************************************************************)
(* plot_transit_time(trajs, N, fig_prefix, dt, folder)                     *)
(* The figures that are drawn and saved are not part of the state; of the  *)
(* plotting code the model keeps what can end the call: the numpy          *)
(* reductions over the lists of transit times.  The averages t_0k_avg,     *)
(* t_k0_avg, t_roundtrip_avg are not returned and not kept (np.mean of an  *)
(* empty list is nan with a warning, no error).  Transit times are numbers *)
(* <<n, d>>, a step count n being <<n, 1>>.                                *)
(***************************************************************************)
None == <<>>

Threshold == 10000

PsPerNs == 1000

k == N - 1

traj == trajs[i + 1]

\* np.array(l) * c and np.array(l) / c
Times(l, c) == [p \in 1..Len(l) |-> RMul(l[p], c)]
Over(l, c) == [p \in 1..Len(l) |-> RDiv(l[p], c)]

RECURSIVE RMax(_, _)
RMax(l, n) ==
    IF n = 1 THEN l[1]
    ELSE LET m == RMax(l, n - 1) IN IF RGeq(l[n], m) THEN l[n] ELSE m

\* np.max([a, b, c]) of three lists of one length: ValueError when they are empty
MaxDefined(a, b, c) == Len(a) + Len(b) + Len(c) > 0
MaxOfThree(a, b, c) == RMax(a \o b \o c, Len(a) + Len(b) + Len(c))

\* lines 310-318: the locals of one configuration
ConfigStart ==
    /\ last_visited' = None
    /\ t_0' = <<>> /\ t_k' = <<>>
    /\ t_0k' = <<>> /\ t_k0' = <<>> /\ t_roundtrip' = <<>>
    /\ end_0_found' = FALSE /\ end_k_found' = FALSE       \* None
    /\ t' = 0

\* lines 293-308
Setup ==
    /\ pc = "setup"
    /\ IF dt = None
       THEN /\ units' = "step"
            /\ pc' = "scan"
       ELSE IF Len(trajs[1]) = 0
       THEN /\ pc' = "ValueError"                          \* max(x) of an empty x
            /\ UNCHANGED units
       ELSE /\ units' = IF RGeq(RMul(Real(Len(trajs[1]) - 1), dt), Real(Threshold))
                        THEN "ns" ELSE "ps"
            /\ pc' = "scan"
    /\ t_0k_list' = <<>> /\ t_k0_list' = <<>> /\ t_roundtrip_list' = <<>>
    /\ sci' = FALSE
    /\ i' = 0
    /\ ConfigStart
    /\ UNCHANGED <<trajs, N, dt>>

\* lines 320-326: the frame is at state 0
AtZeroBug(lv, a0, ak, d0k, dk0) ==
    [lv  |-> <<0>>,
     a0  |-> IF lv # <<0>> THEN Append(a0, t) ELSE a0,
     ak  |-> ak,
     d0k |-> d0k,
     dk0 |-> IF lv # <<0>> /\ lv = <<k>> THEN Append(dk0, Real(t - ak[1])) ELSE dk0]
AtZero(lv, a0, ak, d0k, dk0) ==
    [lv  |-> <<0>>,
     a0  |-> IF lv # <<0>> THEN Append(a0, t) ELSE a0,
     ak  |-> ak,
     d0k |-> d0k,
     dk0 |-> IF lv # <<0>> /\ lv = <<k>> THEN Append(dk0, Real(t - ak[Len(ak)])) ELSE dk0]

\* lines 327-333: the frame is at state k
AtKBug(lv, a0, ak, d0k, dk0) ==
    [lv  |-> lv,
     a0  |-> a0,
     ak  |-> IF lv # <<k>> THEN Append(ak, t) ELSE ak,
     d0k |-> IF lv # <<k>> /\ lv = <<0>> THEN Append(d0k, Real(t - a0[Len(a0)])) ELSE d0k,
     dk0 |-> dk0]
AtKWrongList(lv, a0, ak, d0k, dk0) ==
    [lv  |-> <<k>>,
     a0  |-> a0,
     ak  |-> IF lv # <<k>> THEN Append(ak, t) ELSE ak,
     d0k |-> IF lv # <<k>> /\ lv = <<0>>
             THEN Append(d0k, Real(t - Append(ak, t)[Len(ak) + 1])) ELSE d0k,
     dk0 |-> dk0]
AtK(lv, a0, ak, d0k, dk0) ==
    [lv  |-> <<k>>,
     a0  |-> a0,
     ak  |-> IF lv # <<k>> THEN Append(ak, t) ELSE ak,
     d0k |-> IF lv # <<k>> /\ lv = <<0>> THEN Append(d0k, Real(t - a0[Len(a0)])) ELSE d0k,
     dk0 |-> dk0]

Same(lv, a0, ak, d0k, dk0) == [lv |-> lv, a0 |-> a0, ak |-> ak, d0k |-> d0k, dk0 |-> dk0]

\* lines 319-333: one pass of the body of the loop over the time frames
ScanStep ==
    /\ pc = "scan"
    /\ t < Len(traj)
    /\ LET s0 == Same(last_visited, t_0, t_k, t_0k, t_k0)
           s1 == IF traj[t + 1] = 0
                 THEN AtZero(s0.lv, s0.a0, s0.ak, s0.d0k, s0.dk0) ELSE s0
           s2 == IF traj[t + 1] = k
                 THEN AtK(s1.lv, s1.a0, s1.ak, s1.d0k, s1.dk0) ELSE s1
       IN  /\ last_visited' = s2.lv
           /\ t_0' = s2.a0
           /\ t_k' = s2.ak
           /\ t_0k' = s2.d0k
           /\ t_k0' = s2.dk0
    /\ end_0_found' = (end_0_found \/ traj[t + 1] = 0)
    /\ end_k_found' = (end_k_found \/ traj[t + 1] = k)
    /\ t' = t + 1
    /\ UNCHANGED <<trajs, N, dt, units, t_0k_list, t_k0_list, t_roundtrip_list, sci, i,
                   t_roundtrip, pc>>

\* lines 336-340: the last element of the longer list is dropped
PoppedBug(l) == SubSeq(l, 2, Len(l))
Popped(l) == SubSeq(l, 1, Len(l) - 1)
PairedBug(a, b) == a
Paired(a, b) == IF Len(a) > Len(b) THEN Popped(a) ELSE a

\* np.array(a) + np.array(b) (line 341): element by element; an array of one element
\* is broadcast over the other; other arrays of two lengths raise ValueError
SumDefined(a, b) == Len(a) = Len(b) \/ Len(a) = 1 \/ Len(b) = 1
ArraySumBug(a, b) ==
    [p \in 1..(IF Len(a) = 1 THEN Len(b) ELSE Len(a)) |->
        RAdd(RAdd(a[IF Len(a) = 1 THEN 1 ELSE p], b[IF Len(b) = 1 THEN 1 ELSE p]),
             a[IF Len(a) = 1 THEN 1 ELSE p])]
ArraySum(a, b) ==
    [p \in 1..(IF Len(a) = 1 THEN Len(b) ELSE Len(a)) |->
        RAdd(a[IF Len(a) = 1 THEN 1 ELSE p], b[IF Len(b) = 1 THEN 1 ELSE p])]

\* lines 335-341, after the loop over the time frames
Pair ==
    /\ pc = "scan"
    /\ t = Len(traj)
    /\ LET f == Paired(t_0k, t_k0)
           b == Paired(t_k0, t_0k)
       IN  IF SumDefined(f, b)
           THEN /\ t_0k' = f
                /\ t_k0' = b
                /\ t_roundtrip' = ArraySum(f, b)
                /\ pc' = "collect"
           ELSE /\ pc' = "ValueError"
                /\ UNCHANGED <<t_0k, t_k0, t_roundtrip>>
    /\ UNCHANGED <<trajs, N, dt, units, t_0k_list, t_k0_list, t_roundtrip_list, sci, i, t,
                   last_visited, t_0, t_k, end_0_found, end_k_found>>

\* lines 344-353: the three lists in ps, or in ns when the largest time reaches 10000 ps
InPs(l) == IF dt = None THEN l ELSE Times(l, dt)
ToNs == dt # None /\ RGeq(MaxOfThree(InPs(t_0k), InPs(t_k0), InPs(t_roundtrip)), Real(Threshold))
ReportedBug(l) ==
    IF dt # None /\ Len(l) > 0 /\ RGeq(RMax(InPs(l), Len(l)), Real(Threshold))
    THEN Over(InPs(l), Real(PsPerNs)) ELSE InPs(l)
Reported(l) == IF ToNs THEN Over(InPs(l), Real(PsPerNs)) ELSE InPs(l)

\* for i in range(len(trajs)): the next configuration, or the plots
NextConfig ==
    IF i + 1 < Len(trajs)
    THEN /\ i' = i + 1
         /\ ConfigStart
         /\ pc' = "scan"
    ELSE /\ pc' = "plot"
         /\ UNCHANGED <<i, t, last_visited, t_0, t_k, t_0k, t_k0, t_roundtrip,
                        end_0_found, end_k_found>>

\* lines 343-369
Collect ==
    /\ pc = "collect"
    /\ IF end_0_found /\ end_k_found
       THEN IF ~MaxDefined(t_0k, t_k0, t_roundtrip) /\ (dt # None \/ ~sci)
            THEN /\ pc' = "ValueError"               \* np.max of an empty array
                 /\ UNCHANGED <<units, t_0k_list, t_k0_list, t_roundtrip_list, sci, i, t,
                                last_visited, t_0, t_k, t_0k, t_k0, t_roundtrip,
                                end_0_found, end_k_found>>
            ELSE /\ units' = IF dt = None THEN units ELSE IF ToNs THEN "ns" ELSE "ps"
                 /\ t_0k_list' = Append(t_0k_list, Reported(t_0k))
                 /\ t_k0_list' = Append(t_k0_list, Reported(t_k0))
                 /\ t_roundtrip_list' = Append(t_roundtrip_list, Reported(t_roundtrip))
                 /\ sci' = (sci \/ RGeq(MaxOfThree(Reported(t_0k), Reported(t_k0),
                                                   Reported(t_roundtrip)), Real(Threshold)))
                 /\ NextConfig
       ELSE /\ t_0k_list' = Append(t_0k_list, <<>>)
            /\ t_k0_list' = Append(t_k0_list, <<>>)
            /\ t_roundtrip_list' = Append(t_roundtrip_list, <<>>)
            /\ NextConfig
            /\ UNCHANGED <<units, sci>>
    /\ UNCHANGED <<trajs, N, dt>>

\* lines 390-391 for one of the three lists of lists: np.array(t_list).shape != (1, 0)
\* guards np.max(np.max(t_list)).  Lists of one length make a 2-D array, whose maximum
\* is undefined when it is empty; lists of several lengths make an object array with
\* a warning, or raise ValueError, as the numpy build has it.
Rectangular(t_list) == \A a, b \in 1..Len(t_list) : Len(t_list[a]) = Len(t_list[b])
EmptyRows(t_list) == \A a \in 1..Len(t_list) : Len(t_list[a]) = 0
PlotOutcomes(t_list) ==
    IF ~Rectangular(t_list) THEN {"done", "ValueError"}
    ELSE IF EmptyRows(t_list) /\ Len(t_list) # 1 THEN {"ValueError"}
    ELSE {"done"}

\* lines 371-420: the three lists of a configuration have one length, the first plot
\* decides; no list reaches the 100 events of a histogram within the bounds
Plot ==
    /\ pc = "plot"
    /\ pc' \in PlotOutcomes(t_0k_list)
    /\ UNCHANGED <<trajs, N, dt, units, t_0k_list, t_k0_list, t_roundtrip_list, sci, i, t,
                   last_visited, t_0, t_k, t_0k, t_k0, t_roundtrip, end_0_found, end_k_found>>

(***************************************************************************)
(* The calls of plot_transit_time that are explored.                       *)
(***************************************************************************)
TransitStart ==
    /\ units = "" /\ sci = FALSE
    /\ t_0k_list = <<>> /\ t_k0_list = <<>> /\ t_roundtrip_list = <<>>
    /\ i = 0 /\ t = 0 /\ last_visited = None /\ t_0 = <<>> /\ t_k = <<>>
    /\ t_0k = <<>> /\ t_k0 = <<>> /\ t_roundtrip = <<>>
    /\ end_0_found = FALSE /\ end_k_found = FALSE
    /\ pc = "setup"

\* time steps in ps: the times stay in ps, reach 10000 ps, reach 10000 ns
TimeSteps == {Real(2), Real(4000), Real(10000000)}

\* one configuration, no time step
InitOneConfig ==
    /\ N \in 1..MaxStates
    /\ \E tr \in SeqsUpTo(0..(MaxStates - 1), MaxTrajLen) : trajs = <<tr>>
    /\ dt = None
    /\ TransitStart

\* one configuration, a time step
InitTimed ==
    /\ N \in 1..MaxStates
    /\ \E tr \in SeqsUpTo(0..(MaxStates - 1), MaxTimedLen) : trajs = <<tr>>
    /\ dt \in TimeSteps
    /\ TransitStart

\* two configurations of a system of the two end states
InitTwoConfigs ==
    /\ N = 2
    /\ \E a, b \in SeqsUpTo(0..1, MaxPairLen) : trajs = <<a, b>>
    /\ dt \in {None} \cup TimeSteps
    /\ TransitStart

\* the transit detection scenario
InitTransitScenario ==
    /\ N = 3
    /\ trajs = << <<0, 1, 2, 1, 0, 2, 0>> >>
    /\ dt = None
    /\ TransitStart

\* a trajectory of a system of two states that holds the value 3
InitBeyondScenario ==
    /\ N = 2
    /\ trajs = << <<0, 1, 3, 0>> >>
    /\ dt = None
    /\ TransitStart

InitTransit ==
    (InitOneConfig \/ InitTimed \/ InitTwoConfigs \/ InitTransitScenario
        \/ InitBeyondScenario)
        /\ StitchIdle /\ MtxIdle

NextTransit ==
    \/ Setup /\ UNCHANGED <<stitchVars, mtxVars>>
    \/ ScanStep /\ UNCHANGED <<stitchVars, mtxVars>>
    \/ Pair /\ UNCHANGED <<stitchVars, mtxVars>>
    \/ Collect /\ UNCHANGED <<stitchVars, mtxVars>>
    \/ Plot /\ UNCHANGED <<stitchVars, mtxVars>>

SpecTransit == InitTransit /\ [][NextTransit]_vars

(***************************************************************************)
(* Properties of plot_transit_time.                                        *)
(***************************************************************************)
\* the trajectory of configuration c (1-based) visits state v
Visits(c, v) == \E p \in 1..Len(trajs[c]) : trajs[c][p] = v

\* C8: the three lists reported for a configuration have one length, and every
\* round-trip time is the sum of the forward and the backward time at its index
C8_TransitPairing ==
    /\ Len(t_0k_list) = Len(t_k0_list)
    /\ Len(t_0k_list) = Len(t_roundtrip_list)
    /\ pc = "done" => Len(t_0k_list) = Len(trajs)
    /\ \A c \in 1..Len(t_0k_list) :
          /\ Len(t_0k_list[c]) = Len(t_k0_list[c])
          /\ Len(t_roundtrip_list[c]) = Len(t_0k_list[c])
          /\ \A p \in 1..Len(t_roundtrip_list[c]) :
                t_roundtrip_list[c][p] = RAdd(t_0k_list[c][p], t_k0_list[c][p])

\* a call has returned a round trip of a configuration that recorded one more forward
\* than backward transit: two arrivals at each end
C8_Witness ==
    /\ pc = "done"
    /\ Len(trajs) = 1
    /\ Len(t_roundtrip_list[1]) = 1
    /\ Len(t_0) = 2
    /\ Len(t_k) = 2
    /\ t_0[1] < t_k[1]

\* the absolute difference of the numbers of recorded forward and backward times
LengthGap == Abs(Len(t_0k) - Len(t_k0))

\* C9: at every step of the scan, and at its end, the numbers of recorded forward and
\* backward times differ by at most 1; after one element of the longer list is dropped
\* the two lists have one length
C9_AlternatingTransits ==
    /\ pc = "scan" => LengthGap <= 1
    /\ pc = "collect" => LengthGap = 0

\* a scan has ended with two forward times and one backward time
C9_Witness ==
    /\ pc = "scan"
    /\ t = Len(traj)
    /\ Len(t_0k) = 2
    /\ Len(t_k0) = 1

\* C10 as stated: when the trajectory of every configuration stays away from state 0
\* or from state k, empty lists are reported and no error is raised
C10_NoBoundaryNoError ==
    (\A c \in 1..Len(trajs) : Len(trajs[c]) > 0 /\ (~Visits(c, 0) \/ ~Visits(c, k))) =>
        /\ pc \notin {"ValueError"}
        /\ \A c \in 1..Len(t_0k_list) :
              t_0k_list[c] = <<>> /\ t_k0_list[c] = <<>> /\ t_roundtrip_list[c] = <<>>

\* some value of some trajectory is larger than N
BeyondN == \E c \in 1..Len(trajs) : \E p \in 1..Len(trajs[c]) : trajs[c][p] > N

\* C11 as stated: a call whose N is smaller than the largest value of a trajectory
\* does not return
C11_SmallNRejected ==
    BeyondN => pc # "done"

\* every trajectory is not empty and all its values lie in [0, N)
AllInRange ==
    \A c \in 1..Len(trajs) :
        /\ Len(trajs[c]) > 0
        /\ \A p \in 1..Len(trajs[c]) : trajs[c][p] \in 0..(N - 1)

\* C12 as stated: a call with trajectories whose values all lie in [0, N) raises no
\* error, with or without a time step
C12_InRangeNoError ==
    AllInRange => pc # "ValueError"

(***************************************************************************)
(* The events of a trajectory, read off the trajectory itself.  Times are  *)
(* the 0-based indices of the frames.                                      *)
(***************************************************************************)
\* the state of configuration c (1-based) at time q
Frame(c, q) == trajs[c][q + 1]

LatestOf(S) == CHOOSE x \in S : \A y \in S : y <= x
EarliestOf(S) == CHOOSE x \in S : \A y \in S : x <= y

RECURSIVE Ascending(_)
Ascending(S) ==
    IF S = {} THEN <<>>
    ELSE <<EarliestOf(S)>> \o Ascending(S \ {EarliestOf(S)})

\* the end state the walker of configuration c was at most recently before time q
LastBefore(c, q) ==
    LET ends == {r \in 0..(q - 1) : Frame(c, r) \in {0, N - 1}}
    IN  IF ends = {} THEN None ELSE <<Frame(c, LatestOf(ends))>>

\* among the first n frames, the times the walker is at end state v while the end state
\* it was at last is not v
Arrivals(c, v, n) == {q \in 0..(n - 1) : Frame(c, q) = v /\ LastBefore(c, q) # <<v>>}

\* among the first n frames, the times the walker is at end state w while the end state
\* it was at last is the other end state v
Crossings(c, v, w, n) == {q \in 0..(n - 1) : Frame(c, q) = w /\ LastBefore(c, q) = <<v>>}

\* the time from the latest arrival at v to each crossing from v to w, in steps
Durations(c, v, w, n) ==
    LET at == Ascending(Crossings(c, v, w, n))
    IN  [p \in 1..Len(at) |-> Real(at[p] - LatestOf(Arrivals(c, v, at[p])))]

Elements(l) == {l[p] : p \in 1..Len(l)}

IsTransitScenario == trajs = << <<0, 1, 2, 1, 0, 2, 0>> >> /\ N = 3 /\ dt = None

\* C13: while a trajectory is scanned, the recorded arrivals at an end state are times
\* at which the walker is at that end state and had last been at no end state or at the
\* other one; for two distinct end states they are all such times, a forward time is
\* recorded at each arrival at k that follows a visit of 0 and is the time since the
\* latest recorded arrival at 0, and likewise backward; the scenario [0,1,2,1,0,2,0],
\* N = 3 returns [2,1], [2,1], [4,2]
C13_EventSemantics ==
    /\ pc = "scan" =>
          /\ Elements(t_0) \subseteq Arrivals(i + 1, 0, t)
          /\ Elements(t_k) \subseteq Arrivals(i + 1, k, t)
          /\ last_visited = LastBefore(i + 1, t)
          /\ N >= 2 =>
                /\ t_0 = Ascending(Arrivals(i + 1, 0, t))
                /\ t_k = Ascending(Arrivals(i + 1, k, t))
                /\ t_0k = Durations(i + 1, 0, k, t)
                /\ t_k0 = Durations(i + 1, k, 0, t)
    /\ (pc = "done" /\ IsTransitScenario) =>
          /\ t_0k_list = << <<Real(2), Real(1)>> >>
          /\ t_k0_list = << <<Real(2), Real(1)>> >>
          /\ t_roundtrip_list = << <<Real(4), Real(2)>> >>

\* the scan of the scenario has come back to state 0 for the second time, after a stay
\* at state k that recorded nothing new
C13_Witness ==
    /\ IsTransitScenario
    /\ pc = "scan"
    /\ t = Len(traj)
    /\ t_0 = <<0, 4, 6>>
    /\ t_k = <<2, 5>>
    /\ t_0k = <<Real(2), Real(1)>>
    /\ t_k0 = <<Real(2), Real(1)>>

\* the forward and backward transits of the whole trajectory of configuration c, in
\* steps, cut to one length, and their sums
AllForward(c) == Durations(c, 0, N - 1, Len(trajs[c]))
AllBackward(c) == Durations(c, N - 1, 0, Len(trajs[c]))
PairsOf(c) == IF Len(AllForward(c)) <= Len(AllBackward(c))
              THEN Len(AllForward(c)) ELSE Len(AllBackward(c))
StepsForward(c) == SubSeq(AllForward(c), 1, PairsOf(c))
StepsBackward(c) == SubSeq(AllBackward(c), 1, PairsOf(c))
StepsRoundTrip(c) == [p \in 1..PairsOf(c) |-> RAdd(StepsForward(c)[p], StepsBackward(c)[p])]

\* the three lists reported for configuration c are the step counts times f
ScaledBy(c, f) ==
    /\ t_0k_list[c] = Times(StepsForward(c), f)
    /\ t_k0_list[c] = Times(StepsBackward(c), f)
    /\ t_roundtrip_list[c] = Times(StepsRoundTrip(c), f)

\* some transit of configuration c lasts 10000 ps or more
ReachesTenThousand(c) ==
    \E x \in Elements(StepsForward(c)) \cup Elements(StepsBackward(c))
                \cup Elements(StepsRoundTrip(c)) : RGeq(RMul(x, dt), Real(10000))

\* C14: with a time step, the three lists reported for a configuration that visited
\* both end states are all the step counts times dt when the largest of their times is
\* below 10000, and all the step counts times dt/1000 when it is 10000 or more
C14_UniformScaling ==
    dt # None =>
        \A c \in 1..Len(t_0k_list) :
            (Visits(c, 0) /\ Visits(c, k)) =>
                IF ReachesTenThousand(c)
                THEN ScaledBy(c, RDiv(dt, Real(1000)))
                ELSE ScaledBy(c, dt)

\* a call with a time step of 4000 ps has returned a forward time of one step as 4 ns,
\* next to a round trip of three steps, 12 ns
C14_Witness ==
    /\ pc = "done"
    /\ dt = Real(4000)
    /\ \E c \in 1..Len(t_0k_list) :
          /\ t_0k_list[c] = <<Real(4)>>
          /\ t_k0_list[c] = <<Real(8)>>
          /\ t_roundtrip_list[c] = <<Real(12)>>

\* the recorded arrivals at state 0 of the whole trajectory of configuration c
ZeroArrivals(c) == Ascending(Arrivals(c, 0, Len(trajs[c])))

\* C15 as stated (times in steps, two distinct end states): every reported round-trip
\* time of a configuration is the time from an arrival at 0, through the next arrival
\* at k, to the next arrival at 0, also when the trajectory reaches k before 0
C15_RoundTripFromZero ==
    (dt = None /\ N >= 2) =>
        \A c \in 1..Len(t_roundtrip_list) :
            \A p \in 1..Len(t_roundtrip_list[c]) :
                /\ p + 1 <= Len(ZeroArrivals(c))
                /\ t_roundtrip_list[c][p] = Real(ZeroArrivals(c)[p + 1] - ZeroArrivals(c)[p])

\* the first time of the stay at v that ends with the arrival at w at time e: the
\* earliest time at v with no visit of w between it and e
StartOfStay(c, v, w, e) ==
    EarliestOf({q \in 0..(e - 1) :
                   Frame(c, q) = v /\ \A r \in q..(e - 1) : Frame(c, r) # w})

\* the last time at v before time e
Departure(c, v, e) == LatestOf({q \in 0..(e - 1) : Frame(c, q) = v})

\* the times of the transits from v to w of configuration c, measured from the first
\* time of the stay at v, and measured from the departure from v
FromArrival(c, v, w) ==
    LET at == Ascending(Crossings(c, v, w, Len(trajs[c])))
    IN  [p \in 1..Len(at) |-> Real(at[p] - StartOfStay(c, v, w, at[p]))]
FromDeparture(c, v, w) ==
    LET at == Ascending(Crossings(c, v, w, Len(trajs[c])))
    IN  [p \in 1..Len(at) |-> Real(at[p] - Departure(c, v, at[p]))]

\* the length of a step in the unit of a reported list
Scales == IF dt = None THEN {Real(1)} ELSE {dt, RDiv(dt, Real(1000))}

\* the list l holds the first Len(l) of the step counts m in some unit
LeadingOf(l, m) ==
    /\ Len(l) <= Len(m)
    /\ \E f \in Scales : l = Times(SubSeq(m, 1, Len(l)), f)

\* C16 as stated: every reported transit time is the time from the departure from one
\* end state, the last time step the walker was at it, to the arrival at the other
C16_TransitFromDeparture ==
    \A c \in 1..Len(t_0k_list) :
        /\ LeadingOf(t_0k_list[c], FromDeparture(c, 0, k))
        /\ LeadingOf(t_k0_list[c], FromDeparture(c, k, 0))

\* C16: every reported transit time is the time from the arrival at one end state, the
\* first time step the walker was at it since it was last at the other end state or
\* since the start, to the arrival at the other end state
C16_TransitFromArrival ==
    \A c \in 1..Len(t_0k_list) :
        /\ LeadingOf(t_0k_list[c], FromArrival(c, 0, k))
        /\ LeadingOf(t_k0_list[c], FromArrival(c, k, 0))

\* a call has returned a forward time of 3 steps for a walker that left state 0, came
\* back to it and reached state k one step after leaving it again
C16_Witness ==
    /\ pc = "done"
    /\ N = 3
    /\ trajs = << <<0, 1, 0, 2, 0>> >>
    /\ t_0k_list = << <<Real(3)>> >>
    /\ t_k0_list = << <<Real(1)>> >>

\* the length of a step in the returned units
UnitLength ==
    IF units = "step" THEN Real(1)
    ELSE IF units = "ps" THEN dt
    ELSE RDiv(dt, Real(1000))

\* C17 as stated: the units a call returns are 'step' exactly when there is no time
\* step, and the lists returned for every configuration are in these units
C17_OneUnitForAll ==
    pc = "done" =>
        /\ units = "step" <=> dt = None
        /\ \A c \in 1..Len(trajs) : ScaledBy(c, UnitLength)

\* the sum of a list of whole numbers of steps
Total(l) == RSum(l, Len(l))[1]

WholeStep(x) == x[2] = 1 /\ x[1] >= 1

\* C19: without a time step and with two distinct end states, every forward and every
\* backward time that is recorded or reported is a whole number of steps >= 1
C19_PositiveDurations ==
    (dt = None /\ N >= 2) =>
        /\ \A x \in Elements(t_0k) \cup Elements(t_k0) : WholeStep(x)
        /\ \A c \in 1..Len(t_0k_list) :
              \A x \in Elements(t_0k_list[c]) \cup Elements(t_k0_list[c]) : WholeStep(x)

\* a scan has recorded a forward time of one step, the shortest there is, and a longer
\* backward time
C19_Witness ==
    /\ pc = "scan"
    /\ dt = None
    /\ N = 3
    /\ t_0k = <<Real(1)>>
    /\ t_k0 = <<Real(2)>>

====
